---- MODULE Spec2Model ----
(***************************************************************************)
(* GPXPlotter (src/src/gpx_kml_converter/core/gpx_plotter.py): the view    *)
(* state of the map canvas and the handlers that change it.                *)
(*                                                                         *)
(* Coordinates are exact rationals <<numerator, denominator>> in lowest    *)
(* terms with a positive denominator: the model is the handlers'           *)
(* arithmetic without floating-point rounding.  None is Python's None.     *)
(***************************************************************************)
EXTENDS Integers, Sequences, FiniteSets

\* Python's None, where a coordinate, a layer or an exception may be absent.
None == <<>>

\* ------------------------------------------------------------ bounds
\* Operations (handler calls) in one behaviour.
MaxSteps == 3
\* Cursor positions inside the axes: FracDen - 1 of them, at multiples of
\* 1/FracDen of the axes' width and height.
FracDen == 3
\* Points in one GPX object handed to plot_gpx_data.
MaxPts == 2
\* Length of a coordinate list handed to _set_plot_limits on its own.
MaxLen == 2
\* Calls of plot_gpx_data in a row on one plotter.
MaxRenders == 2

\* ------------------------------------------------------------ arithmetic
Abs(n) == IF n < 0 THEN -n ELSE n

RECURSIVE GCD(_, _)
GCD(a, b) == IF b = 0 THEN a ELSE GCD(b, a % b)

\* The rational n/d (d # 0) in lowest terms.
Rat(n, d) ==
    LET s == IF d < 0 THEN -1 ELSE 1
        g == GCD(Abs(n), Abs(d))
    IN  <<(s * n) \div g, (s * d) \div g>>

Num(n) == <<n, 1>>

\* Common factors are divided out before multiplying, which keeps the
\* intermediate integers small.
Add(a, b) ==
    LET g == GCD(a[2], b[2])
    IN  Rat(a[1] * (b[2] \div g) + b[1] * (a[2] \div g), (a[2] \div g) * b[2])
Sub(a, b) == Add(a, <<-b[1], b[2]>>)
Mul(a, b) ==
    LET x == Rat(a[1], b[2])
        y == Rat(b[1], a[2])
    IN  <<x[1] * y[1], x[2] * y[2]>>
\* a / b for b # 0
Div(a, b) == Mul(a, Rat(b[2], b[1]))
Less(a, b) ==
    LET g == GCD(a[2], b[2])
    IN  a[1] * (b[2] \div g) < b[1] * (a[2] \div g)
\* Python's max(a, b) and min(a, b)
Max2(a, b) == IF Less(a, b) THEN b ELSE a
Min2(a, b) == IF Less(b, a) THEN b ELSE a

RECURSIVE MaxOf(_)
MaxOf(s) == IF Len(s) = 1 THEN s[1] ELSE Max2(s[1], MaxOf(Tail(s)))

RECURSIVE MinOf(_)
MinOf(s) == IF Len(s) = 1 THEN s[1] ELSE Min2(s[1], MinOf(Tail(s)))

\* ------------------------------------------------------------ constants
\* self.zoom_factor = 1.2
zoom_factor == Rat(6, 5)
\* The initial and default view: lon (-10, 30), lat (35, 65).
DefaultXlim == <<Num(-10), Num(30)>>
DefaultYlim == <<Num(35), Num(65)>>
\* Matplotlib's limits of an axes that ax.clear() has just emptied.
ClearedLim == <<Num(0), Num(1)>>

\* ------------------------------------------------------------ state
VARIABLES
    country_borders_gdf,  \* self.country_borders_gdf: <<"GeoDataFrame">> or None
    current_xlim,         \* self.current_xlim: <<min lon, max lon>>
    current_ylim,         \* self.current_ylim: <<min lat, max lat>>
    ax_xlim,              \* the axes' x limits: ax.get_xlim()
    ax_ylim,              \* the axes' y limits: ax.get_ylim()
    is_panning,           \* self.is_panning
    pan_start_x,          \* self.pan_start_x: a coordinate or None
    pan_start_y,          \* self.pan_start_y
    cursor,               \* the Tk widget's cursor glyph
    drawn,                \* the artists on the axes, in drawing order
    all_points_coords,    \* plot_gpx_data's list of the last call
    raised,               \* the exception the last call ended with, or None
    hist,                 \* history: the last call's name, whether it took
                          \*   effect and what it was given; for a scroll or
                          \*   a motion, the limits it found and, in prev,
                          \*   the same of the call before when that was an
                          \*   effective call of the same handler
    steps                 \* calls made so far

vars == <<country_borders_gdf, current_xlim, current_ylim, ax_xlim, ax_ylim,
          is_panning, pan_start_x, pan_start_y, cursor, drawn,
          all_points_coords, raised, hist, steps>>

view == <<current_xlim, current_ylim, ax_xlim, ax_ylim>>
pan == <<is_panning, pan_start_x, pan_start_y, cursor>>
canvas == <<drawn, all_points_coords>>

NoPrev == [op |-> "none"]

\* The record of the last call when it is an effective call of handler op.
Prev(op) ==
    IF hist.op = op /\ hist.effective THEN [hist EXCEPT !.prev = NoPrev] ELSE NoPrev

\* The record of the last call when it is an effective press or an effective
\* pointer-move: the event before in the same drag.
PrevInDrag ==
    IF hist.op \in {"button_press", "motion"} /\ hist.effective
    THEN [hist EXCEPT !.prev = NoPrev] ELSE NoPrev

\* A call that ended normally and is recorded as op.
Called(op, effective) ==
    /\ hist' = [op |-> op, effective |-> effective, prev |-> NoPrev]
    /\ raised' = None
    /\ steps' = steps + 1

\* ------------------------------------------------------------ construction
\* _load_shape_files loading the layer without asking whether the shapefile
\* exists.
LoadWithoutExistsTest(geopandas_available, shp_exists, read_raises) ==
    IF geopandas_available /\ ~read_raises
    THEN <<"GeoDataFrame">> ELSE None

\* _load_shape_files: the border layer, or None when geopandas is missing,
\* the shapefile is missing, or reading it raises.
_load_shape_files(geopandas_available, shp_exists, read_raises) ==
    IF geopandas_available /\ shp_exists /\ ~read_raises
    THEN <<"GeoDataFrame">> ELSE None

\* __init__; the history keeps what _load_shape_files found.
Init ==
    /\ \E a \in BOOLEAN, e \in BOOLEAN, r \in BOOLEAN :
           /\ country_borders_gdf = _load_shape_files(a, e, r)
           /\ hist = [op |-> "__init__", effective |-> TRUE, prev |-> NoPrev,
                      geopandas_available |-> a, shp_exists |-> e,
                      read_raises |-> r]
    /\ current_xlim = DefaultXlim
    /\ current_ylim = DefaultYlim
    /\ is_panning = FALSE
    /\ pan_start_x = None
    /\ pan_start_y = None
    /\ ax_xlim = current_xlim
    /\ ax_ylim = current_ylim
    /\ cursor = "unset"
    /\ drawn = <<>>
    /\ all_points_coords = <<>>
    /\ raised = None
    /\ steps = 0

\* ------------------------------------------------------------ events
\* Where the pointer is put inside the axes: at the fractions
\* (k/FracDen, 1 - k/FracDen), 0 < k < FracDen, of their width and height.
Positions == {<<Rat(k, FracDen), Rat(FracDen - k, FracDen)>> : k \in 1 .. (FracDen - 1)}

\* Matplotlib's event.xdata for a pointer at fraction f of the axes whose
\* limits are lim: the data coordinate under the pointer.
DataCoord(lim, f) == Add(lim[1], Mul(f, Sub(lim[2], lim[1])))

\* Pointer events as Matplotlib builds them: inside the axes with the data
\* coordinates under the pointer, inside the axes with no coordinates (the
\* case the handlers test for), or outside the axes with none.
LocationEvents(buttons) ==
    {[inaxes |-> TRUE, xdata |-> c[1], ydata |-> c[2], button |-> b] :
        c \in {<<DataCoord(ax_xlim, p[1]), DataCoord(ax_ylim, p[2])>> :
                  p \in Positions},
        b \in buttons}
    \cup {[inaxes |-> i, xdata |-> None, ydata |-> None, button |-> b] :
        i \in BOOLEAN, b \in buttons}

ScrollEvents == LocationEvents({"up", "down", "other"})
ButtonEvents == LocationEvents({1, 3})
MotionEvents == LocationEvents({0})

\* ------------------------------------------------------------ zoom
\* ScaleFactor zooming in by 2 - zoom_factor instead of 1 / zoom_factor.
ScaleFactorNotInverse(button) ==
    CASE button = "up" -> Sub(Num(2), zoom_factor)
      [] button = "down" -> zoom_factor
      [] OTHER -> None

\* scale_factor of a scroll direction (lines 99-104); None: return.
ScaleFactor(button) ==
    CASE button = "up" -> Div(Num(1), zoom_factor)
      [] button = "down" -> zoom_factor
      [] OTHER -> None

\* ZoomLim with the upper limit taken below the cursor.
ZoomLimSignSlip(cur, data, scale_factor) ==
    <<Sub(data, Mul(Sub(data, cur[1]), scale_factor)),
      Sub(data, Mul(Sub(cur[2], data), scale_factor))>>

\* new_xlim / new_ylim of _on_scroll (lines 107-114)
ZoomLim(cur, data, scale_factor) ==
    <<Sub(data, Mul(Sub(data, cur[1]), scale_factor)),
      Add(data, Mul(Sub(cur[2], data), scale_factor))>>

ScrollEffective(event) ==
    /\ event.inaxes
    /\ event.xdata # None
    /\ event.ydata # None
    /\ ScaleFactor(event.button) # None

_on_scroll(event) ==
    /\ IF ScrollEffective(event)
       THEN LET new_xlim == ZoomLim(ax_xlim, event.xdata, ScaleFactor(event.button))
                new_ylim == ZoomLim(ax_ylim, event.ydata, ScaleFactor(event.button))
            IN  /\ ax_xlim' = new_xlim
                /\ ax_ylim' = new_ylim
                /\ current_xlim' = new_xlim
                /\ current_ylim' = new_ylim
                /\ hist' = [op |-> "scroll", effective |-> TRUE,
                            button |-> event.button,
                            xdata |-> event.xdata, ydata |-> event.ydata,
                            old_xlim |-> ax_xlim, old_ylim |-> ax_ylim,
                            prev |-> Prev("scroll")]
                /\ raised' = None
                /\ steps' = steps + 1
       ELSE /\ UNCHANGED view
            /\ Called("scroll", FALSE)
    /\ UNCHANGED <<country_borders_gdf, pan, canvas>>

\* ------------------------------------------------------------ pan
_on_button_press(event) ==
    /\ IF event.inaxes /\ event.button = 1
       THEN /\ is_panning' = TRUE
            /\ pan_start_x' = event.xdata
            /\ pan_start_y' = event.ydata
            /\ cursor' = "fleur"
            /\ hist' = [op |-> "button_press", effective |-> TRUE,
                        xdata |-> event.xdata, ydata |-> event.ydata,
                        old_xlim |-> ax_xlim, old_ylim |-> ax_ylim,
                        prev |-> NoPrev]
            /\ raised' = None
            /\ steps' = steps + 1
       ELSE /\ UNCHANGED pan
            /\ Called("button_press", FALSE)
    /\ UNCHANGED <<country_borders_gdf, view, canvas>>

_on_button_release(event) ==
    /\ IF event.button = 1
       THEN /\ is_panning' = FALSE
            /\ cursor' = "hand2"
            /\ UNCHANGED <<pan_start_x, pan_start_y>>
            /\ Called("button_release", TRUE)
       ELSE /\ UNCHANGED pan
            /\ Called("button_release", FALSE)
    /\ UNCHANGED <<country_borders_gdf, view, canvas>>

\* PanLim shifting by the magnitude of the delta, whatever its sign.
PanLimMagnitude(cur, d) ==
    <<Add(cur[1], <<Abs(d[1]), d[2]>>), Add(cur[2], <<Abs(d[1]), d[2]>>)>>

\* PanLim shifting by half the delta.
PanLimHalfDelta(cur, d) ==
    <<Add(cur[1], Div(d, Num(2))), Add(cur[2], Div(d, Num(2)))>>

\* PanLim with the upper limit computed from the lower one.
PanLimIndexSlip(cur, d) == <<Add(cur[1], d), Add(cur[1], d)>>

\* new_xlim / new_ylim of _on_mouse_motion (lines 155-156)
PanLim(cur, d) == <<Add(cur[1], d), Add(cur[2], d)>>

\* MotionEffective without the test of is_panning.
MotionEffectiveNoPanTest(event) ==
    /\ event.inaxes
    /\ event.xdata # None
    /\ event.ydata # None

MotionEffective(event) ==
    /\ is_panning
    /\ event.inaxes
    /\ event.xdata # None
    /\ event.ydata # None

\* With an anchor that is None, pan_start_x - event.xdata (line 149) raises
\* TypeError before anything is changed.
_on_mouse_motion(event) ==
    /\ IF ~MotionEffective(event)
       THEN /\ UNCHANGED view
            /\ Called("motion", FALSE)
       ELSE IF pan_start_x = None \/ pan_start_y = None
       THEN /\ UNCHANGED view
            /\ hist' = [op |-> "motion", effective |-> FALSE, prev |-> NoPrev]
            /\ raised' = <<"TypeError">>
            /\ steps' = steps + 1
       ELSE LET dx == Sub(pan_start_x, event.xdata)
                dy == Sub(pan_start_y, event.ydata)
                new_xlim == PanLim(ax_xlim, dx)
                new_ylim == PanLim(ax_ylim, dy)
            IN  /\ ax_xlim' = new_xlim
                /\ ax_ylim' = new_ylim
                /\ current_xlim' = new_xlim
                /\ current_ylim' = new_ylim
                /\ hist' = [op |-> "motion", effective |-> TRUE,
                            dx |-> dx, dy |-> dy,
                            xdata |-> event.xdata, ydata |-> event.ydata,
                            old_xlim |-> ax_xlim, old_ylim |-> ax_ylim,
                            prev |-> PrevInDrag]
                /\ raised' = None
                /\ steps' = steps + 1
    /\ UNCHANGED <<country_borders_gdf, pan, canvas>>

\* ------------------------------------------------------------ resize
_on_resize ==
    /\ Called("resize", TRUE)
    /\ UNCHANGED <<country_borders_gdf, view, pan, canvas>>

\* ------------------------------------------------------------ auto-fit
\* Buffer with the minimum buffer applied to ranges under 0.01 only.
BufferThresholdSlip(range) ==
    Max2(Mul(range, Rat(1, 10)),
         IF Less(range, Rat(1, 100)) THEN Rat(1, 20) ELSE Num(0))

\* Buffer without the minimum buffer of a small range.
BufferNoMinimum(range) == Mul(range, Rat(1, 10))

\* lat_buffer / lon_buffer (lines 250-254):
\* max(range * buffer_factor, min_buffer_deg if range < 0.1 else 0)
Buffer(range) ==
    LET buffer_factor == Rat(1, 10)
        min_buffer_deg == Rat(1, 20)
    IN  Max2(Mul(range, buffer_factor),
             IF Less(range, Rat(1, 10)) THEN min_buffer_deg ELSE Num(0))

\* lat_range < 0.001 and lon_range < 0.001 (line 262)
VerySmall(lat_range, lon_range) ==
    Less(lat_range, Rat(1, 1000)) /\ Less(lon_range, Rat(1, 1000))

\* AxisLim with the lower extreme as the centre of the fixed square.
AxisLimCentreSlip(lo, hi, small) ==
    IF small
    THEN <<Sub(lo, Rat(1, 10)), Add(lo, Rat(1, 10))>>
    ELSE <<Sub(lo, Buffer(Sub(hi, lo))), Add(hi, Buffer(Sub(hi, lo)))>>

\* The limits of one axis from its extremes (lines 257-258) and, when both
\* ranges are very small, the fixed square around the centre (lines 264-269).
AxisLim(lo, hi, small) ==
    IF small
    THEN LET center == Div(Add(lo, hi), Num(2))
             extension == Rat(1, 10)
         IN  <<Sub(center, extension), Add(center, extension)>>
    ELSE LET buffer == Buffer(Sub(hi, lo))
         IN  <<Sub(lo, buffer), Add(hi, buffer)>>

\* (current_xlim, current_ylim) as _set_plot_limits computes them
\* (lines 235-274) from a list of <<lon, lat>> pairs.
FitLimits(coords) ==
    IF coords # <<>>
    THEN LET all_lons == [i \in 1 .. Len(coords) |-> coords[i][1]]
             all_lats == [i \in 1 .. Len(coords) |-> coords[i][2]]
             min_lat == MinOf(all_lats)
             max_lat == MaxOf(all_lats)
             min_lon == MinOf(all_lons)
             max_lon == MaxOf(all_lons)
             small == VerySmall(Sub(max_lat, min_lat), Sub(max_lon, min_lon))
         IN  <<AxisLim(min_lon, max_lon, small), AxisLim(min_lat, max_lat, small)>>
    ELSE <<DefaultXlim, DefaultYlim>>

\* _set_plot_limits: the limits are stored and then set on the axes
\* (lines 276-277).
_set_plot_limits(coords) ==
    /\ current_xlim' = FitLimits(coords)[1]
    /\ current_ylim' = FitLimits(coords)[2]
    /\ ax_xlim' = current_xlim'
    /\ ax_ylim' = current_ylim'

\* A call of _set_plot_limits on its own.
SetPlotLimitsCall(coords) ==
    /\ _set_plot_limits(coords)
    /\ hist' = [op |-> "_set_plot_limits", effective |-> TRUE,
                coords |-> coords, prev |-> NoPrev]
    /\ raised' = None
    /\ steps' = steps + 1
    /\ UNCHANGED <<country_borders_gdf, pan, canvas>>

\* ------------------------------------------------------------ clear
\* clear_plot leaving the border layer on the axes.
ClearKeepsBorders ==
    /\ drawn' = SelectSeq(drawn, LAMBDA artist : artist.kind = "borders")
    /\ ax_xlim' = DefaultXlim
    /\ ax_ylim' = DefaultYlim
    /\ current_xlim' = DefaultXlim
    /\ current_ylim' = DefaultYlim
    /\ Called("clear_plot", TRUE)
    /\ UNCHANGED <<country_borders_gdf, pan, all_points_coords>>

clear_plot ==
    /\ drawn' = <<>>
    /\ ax_xlim' = DefaultXlim
    /\ ax_ylim' = DefaultYlim
    /\ current_xlim' = DefaultXlim
    /\ current_ylim' = DefaultYlim
    /\ Called("clear_plot", TRUE)
    /\ UNCHANGED <<country_borders_gdf, pan, all_points_coords>>

\* ------------------------------------------------------------ render
\* [v for v in values if v is not None]
Defined(values) == SelectSeq(values, LAMBDA v : v # None)

\* [p.latitude for p in points if p.latitude is not None]
Lats(points) == Defined([i \in 1 .. Len(points) |-> points[i].latitude])
\* [p.longitude for p in points if p.longitude is not None]
Lons(points) == Defined([i \in 1 .. Len(points) |-> points[i].longitude])

\* list(zip(lons, lats)): as long as the shorter of the two
Zip(lons, lats) ==
    [i \in 1 .. (IF Len(lons) < Len(lats) THEN Len(lons) ELSE Len(lats))
        |-> <<lons[i], lats[i]>>]

RECURSIVE Concat(_)
Concat(seqs) == IF seqs = <<>> THEN <<>> ELSE Head(seqs) \o Concat(Tail(seqs))

\* The drawing calls of plot_gpx_data in the order of its loops: one
\* ax.plot per track segment, one dashed ax.plot per route, one ax.scatter
\* for the waypoints.
PlotJobs(gpx_data) ==
    [i \in 1 .. Len(Concat(gpx_data.tracks)) |->
        [kind |-> "line", linestyle |-> "-", zorder |-> 2,
         points |-> Concat(gpx_data.tracks)[i]]]
    \o [i \in 1 .. Len(gpx_data.routes) |->
        [kind |-> "line", linestyle |-> "--", zorder |-> 2,
         points |-> gpx_data.routes[i]]]
    \o <<[kind |-> "scatter", linestyle |-> "", zorder |-> 3,
          points |-> gpx_data.waypoints]>>

\* ax.plot(lons, lats) and ax.scatter(lons, lats) raise ValueError when the
\* two lists differ in length.
PlotRaises(lons, lats) == Len(lons) # Len(lats)

\* The artist a drawing call adds to the axes.
Artist(job, lons, lats) ==
    [kind |-> job.kind, linestyle |-> job.linestyle, zorder |-> job.zorder,
     xs |-> lons, ys |-> lats]

\* The border layer as country_borders_gdf.plot draws it; xs and ys are the
\* extremes of the countries' coordinates (about the whole globe).
BorderArtist ==
    [kind |-> "borders", linestyle |-> "-", zorder |-> 1,
     xs |-> <<Num(-180), Num(180)>>, ys |-> <<Num(-90), Num(84)>>]

\* The loops of plot_gpx_data (lines 190-219) over the drawing calls left,
\* from acc = [drawn, coords, raised]; a raising call ends them.
RECURSIVE Draw(_, _)
Draw(jobs, acc) ==
    IF jobs = <<>> THEN acc
    ELSE LET job == Head(jobs)
             lats == Lats(job.points)
             lons == Lons(job.points)
         IN  IF job.points = <<>> \/ lats = <<>> \/ lons = <<>>
             THEN Draw(Tail(jobs), acc)
             ELSE IF PlotRaises(lons, lats)
             THEN [acc EXCEPT !.raised = <<"ValueError">>]
             ELSE Draw(Tail(jobs),
                       [acc EXCEPT !.drawn = Append(@, Artist(job, lons, lats)),
                                   !.coords = @ \o Zip(lons, lats)])

\* Matplotlib's autoscaled limits of one axis of an axes holding data with
\* the given values: the cleared axes' (0, 1) with no data; otherwise the
\* extremes, widened by 5% of their magnitude when they coincide, with a
\* margin of 5% of the range on each side.
AutoLim(values) ==
    IF values = <<>> THEN ClearedLim
    ELSE LET expander == Rat(1, 20)
             margin == Rat(1, 20)
             v0 == MinOf(values)
             v1 == MaxOf(values)
             x0 == IF v0 # v1 THEN v0
                   ELSE IF v0 = Num(0) THEN Sub(Num(0), expander)
                   ELSE Sub(v0, Mul(expander, <<Abs(v0[1]), v0[2]>>))
             x1 == IF v0 # v1 THEN v1
                   ELSE IF v0 = Num(0) THEN expander
                   ELSE Add(v1, Mul(expander, <<Abs(v1[1]), v1[2]>>))
             delta == Mul(Sub(x1, x0), margin)
         IN  <<Sub(x0, delta), Add(x1, delta)>>

\* plot_gpx_data; the history keeps the argument when keep_input is set.
plot_gpx_data(gpx_data, keep_input) ==
    /\ LET cleared == IF country_borders_gdf # None THEN <<BorderArtist>> ELSE <<>>
           end == Draw(PlotJobs(gpx_data),
                       [drawn |-> cleared, coords |-> <<>>, raised |-> None])
       IN  /\ drawn' = end.drawn
           /\ all_points_coords' = end.coords
           /\ raised' = end.raised
           /\ hist' = [op |-> "plot_gpx_data", effective |-> end.raised = None,
                       gpx_data |-> IF keep_input THEN gpx_data ELSE None,
                       prev |-> NoPrev]
           /\ IF end.raised = None
              THEN _set_plot_limits(end.coords)
              ELSE /\ UNCHANGED <<current_xlim, current_ylim>>
                   /\ ax_xlim' = AutoLim(Concat([i \in 1 .. Len(end.drawn) |-> end.drawn[i].xs]))
                   /\ ax_ylim' = AutoLim(Concat([i \in 1 .. Len(end.drawn) |-> end.drawn[i].ys]))
    /\ steps' = steps + 1
    /\ UNCHANGED <<country_borders_gdf, pan>>

\* ------------------------------------------------------------ inputs
\* The points of the GPX objects handed to plot_gpx_data: two with both
\* coordinates, one with a longitude only, one with a latitude only, one
\* with neither.
GpxPoints ==
    {[longitude |-> Num(10), latitude |-> Num(50)],
     [longitude |-> Num(12), latitude |-> Num(51)],
     [longitude |-> Num(11), latitude |-> None],
     [longitude |-> None, latitude |-> Num(52)],
     [longitude |-> None, latitude |-> None]}

\* The sequences of at most MaxPts points.
PointSeqs == UNION {[1 .. n -> GpxPoints] : n \in 0 .. MaxPts}

\* A GPX object holding the points ps: one track of two segments ps[1..a]
\* and ps[a+1..b], one route ps[b+1..c] and the waypoints ps[c+1..]; with
\* keep_empty FALSE, without its empty segments, tracks and routes.
MakeGpx(ps, a, b, c, keep_empty) ==
    LET all == <<SubSeq(ps, 1, a), SubSeq(ps, a + 1, b)>>
        segments == IF keep_empty THEN all
                    ELSE SelectSeq(all, LAMBDA seg : seg # <<>>)
        route == SubSeq(ps, b + 1, c)
    IN  [tracks |-> IF segments = <<>> THEN <<>> ELSE <<segments>>,
         routes |-> IF route = <<>> /\ ~keep_empty THEN <<>> ELSE <<route>>,
         waypoints |-> SubSeq(ps, c + 1, Len(ps))]

\* The GPX objects of at most MaxPts points.
GpxInputs ==
    {MakeGpx(x[1], x[2], x[3], x[4], x[5]) :
        x \in {y \in PointSeqs \X (0 .. MaxPts) \X (0 .. MaxPts) \X (0 .. MaxPts)
                        \X BOOLEAN :
                  y[2] <= y[3] /\ y[3] <= y[4] /\ y[4] <= Len(y[1])}}

\* The GPX objects rendered between pointer events: waypoints only, each
\* with a longitude.
WaypointGpx ==
    {[tracks |-> <<>>, routes |-> <<>>, waypoints |-> ps] :
        ps \in {qs \in PointSeqs : \A i \in 1 .. Len(qs) : qs[i].longitude # None}}

\* The coordinates of the lists handed to _set_plot_limits on its own: per
\* axis a base value and the values above it by less than 0.001, by 0.001,
\* by less than 0.1, by 0.1 and by more.
Offsets == {Num(0), Rat(1, 2000), Rat(1, 1000), Rat(1, 20), Rat(1, 10), Num(2)}
FitLons == {Add(Num(10), d) : d \in Offsets}
FitLats == {Add(Num(-51), d) : d \in Offsets}

\* A track of three points spanning lon 10..12, lat 50..51.
ExampleTrack ==
    <<<<Num(10), Num(50)>>, <<Num(11), Rat(101, 2)>>, <<Num(12), Num(51)>>>>

\* The lists of at most MaxLen <<lon, lat>> pairs, and the example track.
CoordLists ==
    UNION {[1 .. n -> FitLons \X FitLats] : n \in 0 .. MaxLen} \cup {ExampleTrack}

\* ------------------------------------------------------------ specification
\* Any handler or method is called next, at most MaxSteps calls in all.
Next ==
    \/ steps < MaxSteps /\ \E event \in ScrollEvents : _on_scroll(event)
    \/ steps < MaxSteps /\ \E event \in ButtonEvents : _on_button_press(event)
    \/ steps < MaxSteps /\ \E event \in ButtonEvents : _on_button_release(event)
    \/ steps < MaxSteps /\ \E event \in MotionEvents : _on_mouse_motion(event)
    \/ steps < MaxSteps /\ _on_resize
    \/ steps < MaxSteps /\ \E gpx_data \in WaypointGpx : plot_gpx_data(gpx_data, FALSE)
    \/ steps < MaxSteps /\ clear_plot

Spec == Init /\ [][Next]_vars

\* plot_gpx_data for every GPX object of at most MaxPts points, with the
\* argument kept in the history: as the first call on a new plotter, and
\* again, at most MaxRenders times in a row, after a render that drew
\* MaxPts points.
RenderNext ==
    \/ /\ hist.op = "__init__"
       /\ \E gpx_data \in GpxInputs : plot_gpx_data(gpx_data, TRUE)
    \/ /\ hist.op = "plot_gpx_data"
       /\ steps < MaxRenders
       /\ Len(all_points_coords) = MaxPts
       /\ \E gpx_data \in GpxInputs : plot_gpx_data(gpx_data, TRUE)

RenderSpec == Init /\ [][RenderNext]_vars

\* _set_plot_limits as the first call on a new plotter, for every list of at
\* most MaxLen pairs.
FitNext ==
    /\ hist.op = "__init__"
    /\ \E coords \in CoordLists : SetPlotLimitsCall(coords)

FitSpec == Init /\ [][FitNext]_vars

\* ------------------------------------------------------------ properties
NonDegenerate(lim) == Less(lim[1], lim[2])

\* lo < v < hi
StrictlyInside(v, lim) == Less(lim[1], v) /\ Less(v, lim[2])

\* C1: after construction and after every sequence of scroll, press, move,
\* release, resize, render and clear calls, the view bounds are
\* non-degenerate: max lon > min lon and max lat > min lat, in the stored
\* bounds and in the limits of the axes.
C1_BoundsNonDegenerate ==
    /\ NonDegenerate(current_xlim)
    /\ NonDegenerate(current_ylim)
    /\ NonDegenerate(ax_xlim)
    /\ NonDegenerate(ax_ylim)

\* A pan that moved a view holding rendered data.
C1_Witness ==
    /\ hist.op = "motion"
    /\ hist.effective
    /\ hist.dx # Num(0)
    /\ \E i \in 1 .. Len(drawn) : drawn[i].kind = "scatter"
    /\ C1_BoundsNonDegenerate

\* C2: for every non-empty list of (lon, lat) pairs handed to
\* _set_plot_limits, the resulting bounds strictly contain every pair of the
\* list: min lon < lon < max lon and min lat < lat < max lat.
C2_FitContainsPoints ==
    hist.op = "_set_plot_limits" =>
        \A i \in 1 .. Len(hist.coords) :
            /\ StrictlyInside(hist.coords[i][1], current_xlim)
            /\ StrictlyInside(hist.coords[i][2], current_ylim)
            /\ StrictlyInside(hist.coords[i][1], ax_xlim)
            /\ StrictlyInside(hist.coords[i][2], ax_ylim)

\* A fit of two pairs that differ in longitude only.
C2_Witness ==
    /\ hist.op = "_set_plot_limits"
    /\ Len(hist.coords) = 2
    /\ hist.coords[1][1] # hist.coords[2][1]
    /\ hist.coords[1][2] = hist.coords[2][2]
    /\ StrictlyInside(hist.coords[1][2], current_ylim)

\* The extremes of the longitudes (k = 1) or latitudes (k = 2) of a list.
Lowest(coords, k) == MinOf([i \in 1 .. Len(coords) |-> coords[i][k]])
Highest(coords, k) == MaxOf([i \in 1 .. Len(coords) |-> coords[i][k]])
Range(coords, k) == Sub(Highest(coords, k), Lowest(coords, k))
Midpoint(coords, k) == Div(Add(Lowest(coords, k), Highest(coords, k)), Num(2))
TightCluster(coords) ==
    /\ Less(Range(coords, 1), Rat(1, 1000))
    /\ Less(Range(coords, 2), Rat(1, 1000))

\* C5: for a single point, and whenever both the longitude range and the
\* latitude range of the list handed to _set_plot_limits are under 0.001,
\* the bounds are the square of side 0.2 centred on the midpoint of the
\* extremes: [c_lon - 0.1, c_lon + 0.1] x [c_lat - 0.1, c_lat + 0.1].
C5_TightClusterSquare ==
    (hist.op = "_set_plot_limits" /\ hist.coords # <<>>) =>
        /\ TightCluster(hist.coords) =>
              /\ current_xlim = <<Sub(Midpoint(hist.coords, 1), Rat(1, 10)),
                                  Add(Midpoint(hist.coords, 1), Rat(1, 10))>>
              /\ current_ylim = <<Sub(Midpoint(hist.coords, 2), Rat(1, 10)),
                                  Add(Midpoint(hist.coords, 2), Rat(1, 10))>>
              /\ Sub(current_xlim[2], current_xlim[1]) = Rat(1, 5)
              /\ Sub(current_ylim[2], current_ylim[1]) = Rat(1, 5)
        /\ Len(hist.coords) = 1 =>
              /\ current_xlim = <<Sub(hist.coords[1][1], Rat(1, 10)),
                                  Add(hist.coords[1][1], Rat(1, 10))>>
              /\ current_ylim = <<Sub(hist.coords[1][2], Rat(1, 10)),
                                  Add(hist.coords[1][2], Rat(1, 10))>>

\* A fit of two different points less than 0.001 apart on both axes.
C5_Witness ==
    /\ hist.op = "_set_plot_limits"
    /\ Len(hist.coords) = 2
    /\ hist.coords[1][1] # hist.coords[2][1]
    /\ hist.coords[1][2] # hist.coords[2][2]
    /\ TightCluster(hist.coords)

\* The <<lon, lat>> pairs of the points of a list that have both coordinates.
FullPairs(points) ==
    LET full == SelectSeq(points,
                          LAMBDA p : p.longitude # None /\ p.latitude # None)
    IN  [i \in 1 .. Len(full) |-> <<full[i].longitude, full[i].latitude>>]

\* The pairs of the fully defined points of a GPX object in input order:
\* track segments, routes, waypoints.
ExpectedCoords(gpx_data) ==
    FullPairs(Concat(Concat(gpx_data.tracks)) \o Concat(gpx_data.routes)
              \o gpx_data.waypoints)

\* The coordinates of the lines and markers on the axes, in drawing order.
DrawnCoords ==
    Concat([i \in 1 .. Len(drawn) |->
               IF drawn[i].kind = "borders" THEN <<>>
               ELSE Zip(drawn[i].xs, drawn[i].ys)])

\* C3: plot_gpx_data never raises, whichever points of the GPX object have
\* an undefined latitude, longitude or both.
C3_RenderNeverRaises ==
    hist.op = "plot_gpx_data" => raised = None

\* C4: after a plot_gpx_data that returned, the accumulated coordinate list
\* and the coordinates drawn are exactly the (lon, lat) pairs of the input
\* points that have both coordinates, in input order.
C4_RenderKeepsFullPoints ==
    (hist.op = "plot_gpx_data" /\ hist.gpx_data # None /\ raised = None) =>
        /\ all_points_coords = ExpectedCoords(hist.gpx_data)
        /\ DrawnCoords = ExpectedCoords(hist.gpx_data)

\* C6: plot_gpx_data of a GPX object with no fully defined point sets the
\* bounds to the default lon (-10, 30), lat (35, 65) and leaves nothing
\* drawn but the border layer.
C6_RenderNothingResets ==
    (hist.op = "plot_gpx_data" /\ hist.gpx_data # None
        /\ ExpectedCoords(hist.gpx_data) = <<>>) =>
        /\ current_xlim = DefaultXlim
        /\ current_ylim = DefaultYlim
        /\ ax_xlim = DefaultXlim
        /\ ax_ylim = DefaultYlim
        /\ \A i \in 1 .. Len(drawn) : drawn[i].kind = "borders"

\* The limits both copies of the view hold.
ViewIs(xlim, ylim) ==
    /\ ax_xlim = xlim
    /\ ax_ylim = ylim
    /\ current_xlim = xlim
    /\ current_ylim = ylim

\* Two effective scrolls in a row, in opposite directions, at the same map
\* coordinate.
ZoomedThereAndBack ==
    /\ hist.op = "scroll"
    /\ hist.effective
    /\ hist.prev.op = "scroll"
    /\ hist.prev.button # hist.button
    /\ hist.prev.xdata = hist.xdata
    /\ hist.prev.ydata = hist.ydata

\* C7: a zoom-in followed immediately by a zoom-out at the same cursor map
\* coordinate (or a zoom-out followed by a zoom-in) returns the bounds to
\* the value they had before the first of the two.
C7_ZoomRoundTrip ==
    ZoomedThereAndBack => ViewIs(hist.prev.old_xlim, hist.prev.old_ylim)

\* A zoom-in then zoom-out pair on a view holding rendered data.
C7_Witness ==
    /\ ZoomedThereAndBack
    /\ hist.prev.button = "up"
    /\ hist.button = "down"
    /\ hist.prev.old_xlim # DefaultXlim
    /\ ax_xlim # hist.old_xlim

\* C8: within one drag, a move that pans the view by (dx, dy) followed by a
\* move that pans it by (-dx, -dy) returns the bounds to their value before
\* the first move; stated per axis.
C8_PanRoundTrip ==
    (hist.op = "motion" /\ hist.effective /\ hist.prev.op = "motion") =>
        /\ hist.dx = Sub(Num(0), hist.prev.dx) =>
              (ax_xlim = hist.prev.old_xlim /\ current_xlim = hist.prev.old_xlim)
        /\ hist.dy = Sub(Num(0), hist.prev.dy) =>
              (ax_ylim = hist.prev.old_ylim /\ current_ylim = hist.prev.old_ylim)

\* A drag away and back: two moves by opposite, non-zero amounts.
C8_Witness ==
    /\ hist.op = "motion"
    /\ hist.effective
    /\ hist.prev.op = "motion"
    /\ hist.dx # Num(0)
    /\ hist.dy # Num(0)
    /\ hist.dx = Sub(Num(0), hist.prev.dx)
    /\ hist.dy = Sub(Num(0), hist.prev.dy)
    /\ is_panning

\* The scale of a scroll direction: 1/1.2 for up, 1.2 for down.
ClaimedScale(button) == IF button = "up" THEN Rat(5, 6) ELSE Rat(6, 5)

\* c - (c - old_bound) * scale
ClaimedBound(c, old_bound, scale) == Sub(c, Mul(Sub(c, old_bound), scale))

\* On one axis: every bound is c - (c - old) * scale, c keeps its fractional
\* position between the bounds, and the extent is multiplied by scale.
ZoomedAbout(c, old, new, scale) ==
    /\ new[1] = ClaimedBound(c, old[1], scale)
    /\ new[2] = ClaimedBound(c, old[2], scale)
    /\ Div(Sub(c, new[1]), Sub(new[2], new[1]))
         = Div(Sub(c, old[1]), Sub(old[2], old[1]))
    /\ Sub(new[2], new[1]) = Mul(Sub(old[2], old[1]), scale)

\* C9: a scroll at a valid cursor map coordinate c sets, on each axis, every
\* bound to c - (c - old_bound) * scale, scale = 1/1.2 for up and 1.2 for
\* down; c keeps its fractional position between the bounds and the extent
\* of each axis is multiplied by scale.
C9_ZoomAboutCursor ==
    (hist.op = "scroll" /\ hist.effective) =>
        /\ ZoomedAbout(hist.xdata, hist.old_xlim, ax_xlim, ClaimedScale(hist.button))
        /\ ZoomedAbout(hist.ydata, hist.old_ylim, ax_ylim, ClaimedScale(hist.button))
        /\ current_xlim = ax_xlim
        /\ current_ylim = ax_ylim

\* A zoom-out of a view that was zoomed and holds rendered data.
C9_Witness ==
    /\ hist.op = "scroll"
    /\ hist.effective
    /\ hist.button = "down"
    /\ hist.old_xlim # DefaultXlim
    /\ drawn # <<>>

\* C10: in every reachable state, panning implies that the anchor is
\* defined and the cursor glyph is the move glyph.
C10_PanningHasAnchor ==
    is_panning =>
        /\ pan_start_x # None
        /\ pan_start_y # None
        /\ cursor = "fleur"

\* C11: construction never fails because of the border layer: with geopandas
\* unavailable, the shapefile missing or the read raising, __init__ ends
\* without an exception, with no border layer, the default bounds and no
\* pan in progress.
C11_ConstructionDegrades ==
    hist.op = "__init__" =>
        /\ raised = None
        /\ (~hist.geopandas_available \/ ~hist.shp_exists \/ hist.read_raises)
              => country_borders_gdf = None
        /\ ViewIs(DefaultXlim, DefaultYlim)
        /\ ~is_panning
        /\ pan_start_x = None
        /\ pan_start_y = None

\* C11: the border layer is set once at construction and no later call
\* changes it.
C11_BorderLayerFixed ==
    [][country_borders_gdf' = country_borders_gdf]_vars

\* C11: both parts.
C11_BorderLayerDegradesAndStays ==
    []C11_ConstructionDegrades /\ C11_BorderLayerFixed

\* A plotter just built with geopandas but without the shapefile.
C11_Witness ==
    /\ hist.op = "__init__"
    /\ hist.geopandas_available
    /\ ~hist.shp_exists
    /\ ~hist.read_raises
    /\ country_borders_gdf = None

\* The buffer of an axis range: max(range * 0.1, 0.05) under 0.1 and
\* range * 0.1 from 0.1 on.
ClaimedBuffer(range) ==
    IF Less(range, Rat(1, 10))
    THEN Max2(Mul(range, Rat(1, 10)), Rat(1, 20))
    ELSE Mul(range, Rat(1, 10))

\* [min - buffer, max + buffer] on axis k of a list.
ClaimedAxis(coords, k) ==
    <<Sub(Lowest(coords, k), ClaimedBuffer(Range(coords, k))),
      Add(Highest(coords, k), ClaimedBuffer(Range(coords, k)))>>

\* C12: for a non-empty list handed to _set_plot_limits in which at least
\* one axis range is 0.001 or more, the bounds are [min - buffer,
\* max + buffer] on each axis, buffer = max(range * 0.1, 0.05) for a range
\* under 0.1 and range * 0.1 otherwise; points spanning lon 10..12,
\* lat 50..51 give lon [9.8, 12.2], lat [49.9, 51.1].
C12_FitBuffers ==
    (hist.op = "_set_plot_limits" /\ hist.coords # <<>>) =>
        /\ ~TightCluster(hist.coords) =>
              /\ ViewIs(ClaimedAxis(hist.coords, 1), ClaimedAxis(hist.coords, 2))
        /\ hist.coords = ExampleTrack =>
              /\ ViewIs(<<Rat(49, 5), Rat(61, 5)>>, <<Rat(499, 10), Rat(511, 10)>>)

\* A fit with a longitude range between 0.001 and 0.1 (buffer 0.05) and a
\* latitude range of 0.1 or more (buffer a tenth of it).
C12_Witness ==
    /\ hist.op = "_set_plot_limits"
    /\ hist.coords # <<>>
    /\ ~Less(Range(hist.coords, 1), Rat(1, 1000))
    /\ Less(Range(hist.coords, 1), Rat(1, 10))
    /\ ~Less(Range(hist.coords, 2), Rat(1, 10))
    /\ current_xlim[1] = Sub(Lowest(hist.coords, 1), Rat(1, 20))

\* The fit of the example track.
C12_WitnessExample ==
    /\ hist.op = "_set_plot_limits"
    /\ hist.coords = ExampleTrack
    /\ current_xlim = <<Rat(49, 5), Rat(61, 5)>>

\* The last call was a pointer-move made while panning with the cursor
\* inside the axes at valid coordinates: it either panned or raised.
MovedWhilePanning ==
    /\ hist.op = "motion"
    /\ (hist.effective \/ raised # None)

\* C13: a pointer-move while panning, with the cursor inside the axes at
\* valid coordinates, shifts both bounds of each axis by
\* delta = anchor - cursor coordinate and leaves the extent of each axis
\* unchanged.
C13_MoveShiftsByAnchorDelta ==
    MovedWhilePanning =>
        /\ raised = None
        /\ pan_start_x # None
        /\ pan_start_y # None
        /\ ViewIs(<<Add(hist.old_xlim[1], Sub(pan_start_x, hist.xdata)),
                    Add(hist.old_xlim[2], Sub(pan_start_x, hist.xdata))>>,
                  <<Add(hist.old_ylim[1], Sub(pan_start_y, hist.ydata)),
                    Add(hist.old_ylim[2], Sub(pan_start_y, hist.ydata))>>)
        /\ Sub(ax_xlim[2], ax_xlim[1]) = Sub(hist.old_xlim[2], hist.old_xlim[1])
        /\ Sub(ax_ylim[2], ax_ylim[1]) = Sub(hist.old_ylim[2], hist.old_ylim[1])

\* C13: the anchor changes only on a press of button 1 inside the axes; a
\* pointer-move does not modify it.
C13_AnchorOnlyOnPress ==
    [][(pan_start_x' # pan_start_x \/ pan_start_y' # pan_start_y)
          => (hist'.op = "button_press" /\ hist'.effective)]_vars

\* C13: both parts.
C13_PanFromAnchor ==
    []C13_MoveShiftsByAnchorDelta /\ C13_AnchorOnlyOnPress

\* A scroll event outside the axes, without a cursor coordinate, or in a
\* direction other than up and down.
ScrollIgnored(event) ==
    \/ ~event.inaxes
    \/ event.xdata = None
    \/ event.ydata = None
    \/ event.button \notin {"up", "down"}

\* A pointer-move while idle, or outside the axes, or without a cursor
\* coordinate.
MoveIgnored(event) ==
    \/ ~is_panning
    \/ ~event.inaxes
    \/ event.xdata = None
    \/ event.ydata = None

\* A step in which no ignored event changes the bounds (stored and on the
\* axes): a step of a scroll or a pointer-move that changes them is the
\* step of no ignored event; and the bounds change only on an effective
\* scroll, an effective pointer-move while panning, a render or a clear.
IgnoredKeepBounds ==
    /\ (hist'.op = "scroll" /\ view' # view) =>
           \A event \in ScrollEvents : ScrollIgnored(event) => ~_on_scroll(event)
    /\ (hist'.op = "motion" /\ view' # view) =>
           \A event \in MotionEvents : MoveIgnored(event) => ~_on_mouse_motion(event)
    /\ hist'.op \in {"button_press", "button_release", "resize"} =>
           view' = view
    /\ view' # view =>
           \/ /\ hist'.op = "scroll"
              /\ \E event \in ScrollEvents :
                     ~ScrollIgnored(event) /\ _on_scroll(event)
           \/ /\ hist'.op = "motion"
              /\ \E event \in MotionEvents :
                     ~MoveIgnored(event) /\ _on_mouse_motion(event)
           \/ hist'.op \in {"plot_gpx_data", "clear_plot"}

\* C14: events that are ignored leave the bounds unchanged: an ignored
\* scroll, an ignored pointer-move, any press, any release and any resize;
\* the bounds change only on an effective scroll, an effective pointer-move
\* while panning, a render or a clear.
C14_IgnoredEventsKeepBounds == [][IgnoredKeepBounds]_vars

\* A pointer-move that is ignored during a drag (outside the axes or without
\* coordinates), on a view the drag has moved.
C14_Witness ==
    /\ hist.op = "motion"
    /\ ~hist.effective
    /\ raised = None
    /\ is_panning
    /\ pan_start_x # None
    /\ ax_xlim # DefaultXlim

\* A list of points holds at least one with both coordinates.
HasFullPoint(points) == FullPairs(points) # <<>>

\* The layers the axes should hold after a render, bottom to top: kind,
\* line style and z-order of each.
ExpectedLayers(gdf, gpx_data) ==
    LET segments == Concat(gpx_data.tracks)
        Layer(kind, linestyle, zorder) ==
            [kind |-> kind, linestyle |-> linestyle, zorder |-> zorder]
    IN  (IF gdf # None THEN <<Layer("borders", "-", 1)>> ELSE <<>>)
        \o [i \in 1 .. Len(SelectSeq(segments, HasFullPoint)) |-> Layer("line", "-", 2)]
        \o [i \in 1 .. Len(SelectSeq(gpx_data.routes, HasFullPoint)) |->
                Layer("line", "--", 2)]
        \o (IF HasFullPoint(gpx_data.waypoints)
            THEN <<Layer("scatter", "", 3)>> ELSE <<>>)

\* Kind, line style and z-order of the artists on the axes, in drawing order.
DrawnLayers ==
    [i \in 1 .. Len(drawn) |->
        [kind |-> drawn[i].kind, linestyle |-> drawn[i].linestyle,
         zorder |-> drawn[i].zorder]]

\* C15: after plot_gpx_data, whatever was drawn before, the axes hold
\* exactly: the border layer if one is loaded (bottom), one solid line per
\* track segment with at least one fully defined point, one dashed line per
\* route with at least one fully defined point, and one marker layer if at
\* least one waypoint is fully defined (top); nothing of an earlier render
\* is left.
C15_RenderDrawsExactLayers ==
    (hist.op = "plot_gpx_data" /\ hist.gpx_data # None) =>
        DrawnLayers = ExpectedLayers(country_borders_gdf, hist.gpx_data)

\* A step of clear_plot: nothing is left on the axes, the bounds (stored and
\* on the axes) are the default ones, which are those of an auto-fit of the
\* empty list, and the pan state is as before.
ClearResets ==
    hist'.op = "clear_plot" =>
        /\ drawn' = <<>>
        /\ current_xlim' = DefaultXlim
        /\ current_ylim' = DefaultYlim
        /\ ax_xlim' = DefaultXlim
        /\ ax_ylim' = DefaultYlim
        /\ <<current_xlim', current_ylim'>> = FitLimits(<<>>)
        /\ <<ax_xlim', ax_ylim'>> = FitLimits(<<>>)
        /\ raised' = None
        /\ pan' = pan

\* C16: clear_plot, from any reachable state, erases everything drawn
\* (tracks, routes, waypoints and borders alike) and sets the bounds to the
\* default lon (-10, 30), lat (35, 65), as an auto-fit of the empty list
\* would; it does not change the pan state.
C16_ClearResets == [][ClearResets]_vars

\* A clear during a drag, on a plotter with a border layer that has
\* rendered points.
C16_Witness ==
    /\ hist.op = "clear_plot"
    /\ country_borders_gdf # None
    /\ all_points_coords # <<>>
    /\ is_panning
    /\ drawn = <<>>

\* C17: at the end of construction and of every call (scroll, pointer-move,
\* render, clear, resize), the stored bounds (current_xlim, current_ylim)
\* equal the limits of the axes.
C17_StoredBoundsEqualAxes ==
    /\ current_xlim = ax_xlim
    /\ current_ylim = ax_ylim

\* Where the pointer is along an axis with limits lim when the map
\* coordinate under it is data: its screen position as a fraction of the
\* axes.
PointerFraction(lim, data) == Div(Sub(data, lim[1]), Sub(lim[2], lim[1]))

\* The map coordinate under a pointer at fraction f of an axis with limits
\* lim.
UnderPointer(lim, f) == Add(lim[1], Mul(f, Sub(lim[2], lim[1])))

\* On one axis, after an effective pointer-move: the map coordinate under
\* the pointer is the anchor, and the bounds have shifted since the event
\* before in the drag (press or move, record before) by the pointer's
\* displacement between the two events, the map following the pointer.
FollowsPointer(anchor, data, old, new, before) ==
    LET f == PointerFraction(old, data)
    IN  /\ UnderPointer(new, f) = anchor
        /\ (before.op \in {"button_press", "motion"} /\ before.data # None) =>
              LET f0 == PointerFraction(before.old, before.data)
                  moved == Mul(Sub(f, f0), Sub(old[2], old[1]))
              IN  /\ Sub(new[1], old[1]) = Sub(Num(0), moved)
                  /\ Sub(new[2], old[2]) = Sub(Num(0), moved)

\* The record of the event before on one axis.
BeforeX == IF hist.prev.op = "none" THEN hist.prev
           ELSE [op |-> hist.prev.op, data |-> hist.prev.xdata,
                 old |-> hist.prev.old_xlim]
BeforeY == IF hist.prev.op = "none" THEN hist.prev
           ELSE [op |-> hist.prev.op, data |-> hist.prev.ydata,
                 old |-> hist.prev.old_ylim]

\* C18: during a drag in which the cursor coordinate of every pointer-move
\* is resolved from the pointer's screen position against the bounds at
\* that event, after every effective pointer-move the map coordinate under
\* the pointer equals the anchor recorded at the press, and each move
\* shifts the bounds by the pointer's displacement since the event before,
\* so that the total shift since the press is the pointer's displacement:
\* no drift and no motion applied twice.
C18_MapFollowsPointer ==
    (hist.op = "motion" /\ hist.effective) =>
        /\ FollowsPointer(pan_start_x, hist.xdata, hist.old_xlim, ax_xlim, BeforeX)
        /\ FollowsPointer(pan_start_y, hist.ydata, hist.old_ylim, ax_ylim, BeforeY)
        /\ current_xlim = ax_xlim
        /\ current_ylim = ax_ylim

\* The second move of a drag, each to a place other than the one before.
C18_Witness ==
    /\ hist.op = "motion"
    /\ hist.effective
    /\ hist.prev.op = "motion"
    /\ hist.xdata # hist.prev.xdata
    /\ hist.prev.dx # Num(0)
    /\ ax_xlim # hist.old_xlim
    /\ UnderPointer(ax_xlim, PointerFraction(hist.old_xlim, hist.xdata)) = pan_start_x

====
